---- MODULE Spec2Model ----
(***************************************************************************)
(* WG-Bridge bootstrap: the process-wide asynchronous logger               *)
(* (src/src/core/logger.rs), the one-shot configuration loader             *)
(* (src/src/core/configuration.rs) and the start-up sequence               *)
(* (src/src/main.rs).                                                      *)
(*                                                                         *)
(* Threads are the main thread (0), which runs main(), and worker threads  *)
(* (1..NumWorkers), which stand for application threads calling the public *)
(* API in any order.  Every Logger::init call creates one channel and one  *)
(* consumer thread; channels are numbered in creation order.               *)
(***************************************************************************)
EXTENDS Integers, Sequences, FiniteSets, TLC

\* ------------------------------------------------------------------ bounds
NumWorkers == 1
MaxCalls == 2
MaxInits == 2
MaxFails == 1
MaxFrags == 3

\* ------------------------------------------------------------- identities
MainThread == 0
Workers == 1..NumWorkers
Threads == 0..NumWorkers
Chans == 1..MaxInits

\* exit statuses of the process: main returning, process::exit(1) in
\* AppConf::init, and a panic of the main thread
ExitOk == 0
ExitFailure == 1
ExitPanic == 101
\* exit_status is <<>> while the process runs and <<code>> once it has ended
NotExited == <<>>
Exited(code) == <<code>>

\* ---------------------------------------------------------------- strings
\* A string that the code inspects is a sequence of characters.
PLACEHOLDER == <<"$", "H", "O", "M", "E">>
ConfPath == "/etc/wg-bridge/app.toml"

\* str::contains(pat): pat occurs in s as a contiguous substring
Contains(s, pat) ==
  \E i \in 1..(Len(s) - Len(pat) + 1) : SubSeq(s, i, i + Len(pat) - 1) = pat

MatchAt(s, i, pat) ==
  /\ i + Len(pat) - 1 <= Len(s)
  /\ SubSeq(s, i, i + Len(pat) - 1) = pat

\* str::replace(from, to): every non-overlapping match of a non-empty
\* pattern, found scanning left to right, is replaced; the replacement text
\* is not rescanned.
RECURSIVE ReplaceFrom(_, _, _, _)
ReplaceFrom(s, i, from, to) ==
  IF i > Len(s) THEN <<>>
  ELSE IF MatchAt(s, i, from)
       THEN to \o ReplaceFrom(s, i + Len(from), from, to)
       ELSE <<s[i]>> \o ReplaceFrom(s, i + 1, from, to)

Replace(s, from, to) == ReplaceFrom(s, 1, from, to)

\* ----------------------------------------------------- configuration data
\* struct AppConf
AppConf(version, log_path, user_conf) ==
  [version |-> version, log_path |-> log_path, user_conf |-> user_conf]

\* The content of /etc/wg-bridge/app.toml: absent/unreadable, not a valid
\* AppConf document, or a document carrying the three fields.
NoDoc == AppConf("", "", <<>>)
FileMissing == [kind |-> "missing", doc |-> NoDoc]
FileGarbage == [kind |-> "garbage", doc |-> NoDoc]
FileDoc(d) == [kind |-> "doc", doc |-> d]

\* The HOME environment variable: unset, or set to a string.
HomeUnset == [set |-> FALSE, val |-> <<>>]
HomeSet(v) == [set |-> TRUE, val |-> v]

\* Result<AppConf, Box<dyn Error>> of load_app_conf
Ok(c) == [ok |-> TRUE, conf |-> c, err |-> "", logged |-> ""]
\* err: the failure kind; logged: the text of the ERROR record that
\* load_app_conf itself enqueued before returning ("" when it logged nothing)
Err(kind, logged) == [ok |-> FALSE, conf |-> NoDoc, err |-> kind, logged |-> logged]
NoResult == [ok |-> FALSE, conf |-> NoDoc, err |-> "none", logged |-> ""]

\* faulty variant: only the first placeholder is replaced
SubstituteHome_first(user_conf, home) ==
  IF \E i \in 1..Len(user_conf) : MatchAt(user_conf, i, PLACEHOLDER)
    THEN LET i == CHOOSE k \in 1..Len(user_conf) :
                    /\ MatchAt(user_conf, k, PLACEHOLDER)
                    /\ \A m \in 1..(k - 1) : ~MatchAt(user_conf, m, PLACEHOLDER)
         IN SubSeq(user_conf, 1, i - 1) \o home
              \o SubSeq(user_conf, i + Len(PLACEHOLDER), Len(user_conf))
    ELSE user_conf

\* load_app_conf, lines 66-70: the "$HOME" substitution of user_conf
SubstituteHome(user_conf, home) ==
  Replace(user_conf, PLACEHOLDER, home)

\* faulty variant: a file that cannot be read yields a default configuration
load_app_conf_default(file, home) ==
  IF file.kind = "missing"
    THEN Ok(NoDoc)
  ELSE IF file.kind = "garbage"
    THEN Err("parse", "Failed to parse the config file")
  ELSE IF Contains(file.doc.user_conf, PLACEHOLDER)
    THEN IF ~home.set
           THEN Err("env", "")
           ELSE Ok(AppConf(file.doc.version, file.doc.log_path,
                           SubstituteHome(file.doc.user_conf, home.val)))
  ELSE Ok(file.doc)

\* faulty variant: HOME is read before user_conf is looked at
load_app_conf_eager(file, home) ==
  IF file.kind = "missing"
    THEN Err("read", "Failed to read config file")
  ELSE IF file.kind = "garbage"
    THEN Err("parse", "Failed to parse the config file")
  ELSE IF ~home.set
    THEN Err("env", "")
  ELSE IF Contains(file.doc.user_conf, PLACEHOLDER)
    THEN Ok(AppConf(file.doc.version, file.doc.log_path,
                    SubstituteHome(file.doc.user_conf, home.val)))
  ELSE Ok(file.doc)

\* AppConf::load_app_conf as a function of the file content and of HOME
load_app_conf(file, home) ==
  IF file.kind = "missing"
    THEN Err("read", "Failed to read config file")
  ELSE IF file.kind = "garbage"
    THEN Err("parse", "Failed to parse the config file")
  ELSE IF Contains(file.doc.user_conf, PLACEHOLDER)
    THEN IF ~home.set
           THEN Err("env", "")
           ELSE Ok(AppConf(file.doc.version, file.doc.log_path,
                           SubstituteHome(file.doc.user_conf, home.val)))
  ELSE Ok(file.doc)

\* ------------------------------------------------------------ log records
\* The argument of info/warn/error/debug: the text, and what format! put in it
Msg(text, path, cause, arg) ==
  [text |-> text, path |-> path, cause |-> cause, arg |-> arg]

\* Logger::log, line 88: the formatted line.  The time stamp is the time of
\* the call; src and n (the caller and the index of the call among the
\* caller's log calls) stand for it and identify the record.
log_message(t, n, level, message) ==
  [src |-> t, n |-> n, level |-> level, msg |-> message]

NoRecord == log_message(0, 0, "", Msg("", "", "", <<>>))

VARIABLES
  exit_status,       \* <<>> or <<exit code>>
  debug_assertions,  \* cfg(debug_assertions): a debug build
  confFile,          \* content of /etc/wg-bridge/app.toml
  envHOME,           \* the HOME environment variable
  LOGGER,            \* static LOGGER: 0 = empty OnceLock, else the channel of its sender
  CONFIG,            \* static CONFIG: [set, conf]
  nchan,             \* channels created so far
  queue,             \* per channel: records sent and not yet received
  senders,           \* per channel: live Sender handles
  consumer,          \* per channel: position of its consumer thread
  cur,               \* per channel: the record the consumer holds
  file,              \* the log file: what was appended since the process started
  stderr,            \* standard error: the records reported as failed writes
  fails,             \* failed writes so far
  pc,                \* per thread: position
  mainStep,          \* position of main() in its statement list
  calls,             \* API calls started by worker threads
  handle,            \* per thread: the &'static Logger it obtained (channel), 0 = none
  confRef,           \* per thread: the &'static AppConf it obtained
  loaded,            \* per thread: the result of load_app_conf inside AppConf::init
  tx,                \* per thread: the Sender local to a running Logger::init
  panicMsg,          \* per thread: the message of its panic
  issued,            \* history, per thread: the records of its log calls, in call order
  sent,              \* history, per channel: the records the channel accepted, in order
  attempts,          \* history, per channel: the writes attempted, [rec, outcome]
  flushes            \* history, per channel: the number of file.flush() calls

envVars == <<debug_assertions, confFile, envHOME>>
chanVars == <<nchan, queue, senders, consumer, cur>>
outVars == <<file, stderr, fails>>
thrVars == <<pc, mainStep, calls, handle, confRef, loaded, tx, panicMsg>>
histVars == <<issued, sent, attempts, flushes>>
vars == <<exit_status, envVars, LOGGER, CONFIG, chanVars, outVars, thrVars, histVars>>

NoConfig == [set |-> FALSE, conf |-> NoDoc]

\* ---------------------------------------------------- the inputs of a run
DocPlain == AppConf("1.0", "/var/log/x.log", <<"/", "c">>)
DocHome == AppConf("1.0", "/var/log/x.log", PLACEHOLDER \o <<"/", "c">>)
ConfFiles == {FileMissing, FileGarbage, FileDoc(DocPlain), FileDoc(DocHome)}
Homes == {HomeUnset, HomeSet(<<"/", "h">>)}

\* The state when main() starts, for a build, a configuration file and a
\* value of HOME taken from the given sets.
InitWith(builds, files, homes) ==
  /\ exit_status = NotExited
  /\ debug_assertions \in builds
  /\ confFile \in files
  /\ envHOME \in homes
  /\ LOGGER = 0
  /\ CONFIG = NoConfig
  /\ nchan = 0
  /\ queue = [c \in Chans |-> <<>>]
  /\ senders = [c \in Chans |-> 0]
  /\ consumer = [c \in Chans |-> "none"]
  /\ cur = [c \in Chans |-> NoRecord]
  /\ file = <<>>
  /\ stderr = <<>>
  /\ fails = 0
  /\ pc = [t \in Threads |-> "idle"]
  /\ mainStep = 1
  /\ calls = 0
  /\ handle = [t \in Threads |-> 0]
  /\ confRef = [t \in Threads |-> NoConfig]
  /\ loaded = [t \in Threads |-> NoResult]
  /\ tx = [t \in Threads |-> 0]
  /\ panicMsg = [t \in Threads |-> ""]
  /\ issued = [t \in Threads |-> <<>>]
  /\ sent = [c \in Chans |-> <<>>]
  /\ attempts = [c \in Chans |-> <<>>]
  /\ flushes = [c \in Chans |-> 0]

Init == InitWith(BOOLEAN, ConfFiles, Homes)

\* ------------------------------------------------------- thread scheduling
\* main(), lines 19-40, as the list of its calls.  The debug-only block
\* (lines 30-39) exists in debug builds; println! and sleep change no state
\* modelled here.
MainScript ==
  <<"Logger::init", "Logger::get", "AppConf::init", "AppConf::get">>
  \o (IF debug_assertions
        THEN <<"debug", "info", "warn", "error", "debug_user_conf">>
        ELSE <<>>)
  \o <<"return">>

\* the level and text of the log statements of main()
MainLevel(op) ==
  CASE op = "debug" -> "DEBUG"
    [] op = "info" -> "INFO"
    [] op = "warn" -> "WARN"
    [] op = "error" -> "ERROR"
    [] op = "debug_user_conf" -> "DEBUG"
    [] OTHER -> ""

\* Logger::debug is compiled only with debug_assertions (line 99)
Levels == {"INFO", "WARN", "ERROR"} \cup (IF debug_assertions THEN {"DEBUG"} ELSE {})

\* Thread t may start the call op now: the main thread follows main(),
\* the workers call anything, up to MaxCalls calls between them.
MayCall(t, op) ==
  /\ exit_status = NotExited
  /\ pc[t] = "idle"
  /\ IF t = MainThread
       THEN mainStep <= Len(MainScript) /\ MainScript[mainStep] = op
       ELSE calls < MaxCalls

Charge(t) ==
  calls' = IF t \in Workers THEN calls + 1 ELSE calls

\* the call of t returned: main() moves to its next statement
Advance(t) ==
  mainStep' = IF t = MainThread THEN mainStep + 1 ELSE mainStep

\* A panic unwinds the thread; a panic of the main thread ends the process.
Panic(t, msg) ==
  /\ pc' = [pc EXCEPT ![t] = "panicked"]
  /\ panicMsg' = [panicMsg EXCEPT ![t] = msg]
  /\ exit_status' = IF t = MainThread THEN Exited(ExitPanic) ELSE exit_status

\* ------------------------------------------------------------------ Logger
\* faulty variant: the receiver outlives the thread that owned it
ReceiverAlive_ever(c) == consumer[c] # "none"

\* Sender::send on channel c: the record is queued while the receiver
\* exists; once the consumer thread is gone the receiver is dropped, send
\* returns Err and the record is dropped with it.
ReceiverAlive(c) == consumer[c] \in {"spawned", "receiving", "writing", "flushing"}

\* faulty variant: the channel hands out the newest record first
Enqueue_front(q, rec) == <<rec>> \o q

Enqueue(q, rec) == Append(q, rec)

\* faulty variant: a rendezvous channel, send waits until the queue is empty
Send_bounded(c, rec) ==
  /\ queue[c] = <<>>
  /\ IF ReceiverAlive(c)
       THEN /\ queue' = [queue EXCEPT ![c] = Enqueue(@, rec)]
            /\ sent' = [sent EXCEPT ![c] = Append(@, rec)]
       ELSE UNCHANGED <<queue, sent>>

Send(c, rec) ==
  IF ReceiverAlive(c)
    THEN /\ queue' = [queue EXCEPT ![c] = Enqueue(@, rec)]
         /\ sent' = [sent EXCEPT ![c] = Append(@, rec)]
    ELSE UNCHANGED <<queue, sent>>

\* Logger::log (lines 83-90) on the handle h by thread t
LogCall(t, h, level, message) ==
  LET rec == log_message(t, Len(issued[t]) + 1, level, message) IN
  /\ issued' = [issued EXCEPT ![t] = Append(@, rec)]
  /\ Send(h, rec)

\* Logger::init, lines 52-69: the channel is created and the consumer thread
\* spawned, before the singleton is looked at.
SpawnConsumer(c) ==
  /\ nchan' = c
  /\ consumer' = [consumer EXCEPT ![c] = "spawned"]
  /\ senders' = [senders EXCEPT ![c] = 1]

LoggerInitSpawn(t) ==
  /\ MayCall(t, "Logger::init")
  /\ nchan < MaxInits
  /\ SpawnConsumer(nchan + 1)
  /\ tx' = [tx EXCEPT ![t] = nchan + 1]
  /\ pc' = [pc EXCEPT ![t] = "li_set"]
  /\ Charge(t)
  /\ UNCHANGED <<exit_status, envVars, LOGGER, CONFIG, queue, cur, outVars,
                 mainStep, handle, confRef, loaded, panicMsg, histVars>>

\* faulty variant: set stores the new value over the installed one
LoggerSet_replace(cell, c) == c

\* OnceLock::set of LOGGER: the value is stored if the cell is empty
LoggerSet(cell, c) == IF cell = 0 THEN c ELSE cell

\* Logger::init, lines 71-72: LOGGER.set(logger).expect(..).  On Err the
\* rejected Logger, and with it the Sender, is dropped by the panic.
LoggerInitSet(t) ==
  /\ exit_status = NotExited
  /\ pc[t] = "li_set"
  /\ LOGGER' = LoggerSet(LOGGER, tx[t])
  /\ tx' = [tx EXCEPT ![t] = 0]
  /\ IF LOGGER = 0
       THEN /\ pc' = [pc EXCEPT ![t] = "idle"]
            /\ Advance(t)
            /\ UNCHANGED <<exit_status, panicMsg, senders>>
       ELSE /\ Panic(t, "Logger already initialized")
            /\ senders' = [senders EXCEPT ![tx[t]] = 0]
            /\ UNCHANGED mainStep
  /\ UNCHANGED <<envVars, CONFIG, nchan, queue, consumer, cur, outVars,
                 calls, handle, confRef, loaded, histVars>>

\* faulty variant: get hands out the channel created last, installed or not
LoggerCell_latest(cell) == [present |-> cell # 0, value |-> nchan]

\* faulty variant: an empty cell yields a default value instead of a panic
LoggerCell_default(cell) == [present |-> TRUE, value |-> cell]

\* OnceLock::get().expect(..): the stored value, or a panic when empty
LoggerCell(cell) == [present |-> cell # 0, value |-> cell]
ConfigCell(cell) == [present |-> cell.set, value |-> cell]

\* Logger::get, lines 142-144
LoggerGet(t) ==
  /\ MayCall(t, "Logger::get")
  /\ Charge(t)
  /\ IF LoggerCell(LOGGER).present
       THEN /\ handle' = [handle EXCEPT ![t] = LoggerCell(LOGGER).value]
            /\ Advance(t)
            /\ UNCHANGED <<exit_status, pc, panicMsg>>
       ELSE /\ Panic(t, "Logger not initialized")
            /\ UNCHANGED <<handle, mainStep>>
  /\ UNCHANGED <<envVars, LOGGER, CONFIG, chanVars, outVars,
                 confRef, loaded, tx, histVars>>

\* info / warn / error / debug (lines 100-132) on the handle the thread holds
Log(t, op, level, message) ==
  /\ MayCall(t, op)
  /\ handle[t] # 0
  /\ Charge(t)
  /\ Advance(t)
  /\ LogCall(t, handle[t], level, message)
  /\ UNCHANGED <<exit_status, envVars, LOGGER, CONFIG, nchan, senders, consumer,
                 cur, outVars, pc, handle, confRef, loaded, tx, panicMsg, attempts, flushes>>

WorkerLog(t) ==
  /\ t \in Workers
  /\ \E level \in Levels : Log(t, "log", level, Msg("m", "", "", <<>>))

MainLog ==
  /\ mainStep <= Len(MainScript)
  /\ LET op == MainScript[mainStep] IN
     /\ MainLevel(op) # ""
     /\ Log(MainThread, op, MainLevel(op),
            IF op = "debug_user_conf"
              THEN Msg("user configuration path", "", "", confRef[MainThread].conf.user_conf)
              ELSE Msg("test", "", "", <<>>))

\* -------------------------------------------------------- consumer thread
\* lines 57-61: open the log file; a failure panics the consumer thread,
\* which drops the receiver and the records already queued.
ConsumerOpen(c) ==
  /\ exit_status = NotExited
  /\ consumer[c] = "spawned"
  /\ \E opened \in BOOLEAN :
       IF opened
         THEN /\ consumer' = [consumer EXCEPT ![c] = "receiving"]
              /\ UNCHANGED queue
         ELSE /\ consumer' = [consumer EXCEPT ![c] = "panicked"]
              /\ queue' = [queue EXCEPT ![c] = <<>>]
  /\ UNCHANGED <<exit_status, envVars, LOGGER, CONFIG, nchan, senders, cur,
                 outVars, thrVars, histVars>>

\* faulty variant: receiving takes the newest record, not the oldest
Dequeue_last(q) ==
  [rec |-> q[Len(q)], rest |-> SubSeq(q, 1, Len(q) - 1)]

\* faulty variant: receiving takes one record and loses the one behind it
Dequeue_skip(q) ==
  [rec |-> Head(q), rest |-> IF Len(q) > 1 THEN Tail(Tail(q)) ELSE Tail(q)]

\* Receiver iteration: the oldest queued record
Dequeue(q) == [rec |-> Head(q), rest |-> Tail(q)]

\* line 63: `for message in rx` receives the next record
ConsumerRecv(c) ==
  /\ exit_status = NotExited
  /\ consumer[c] = "receiving"
  /\ queue[c] # <<>>
  /\ cur' = [cur EXCEPT ![c] = Dequeue(queue[c]).rec]
  /\ queue' = [queue EXCEPT ![c] = Dequeue(queue[c]).rest]
  /\ consumer' = [consumer EXCEPT ![c] = "writing"]
  /\ UNCHANGED <<exit_status, envVars, LOGGER, CONFIG, nchan, senders,
                 outVars, thrVars, histVars>>

\* faulty variant: the iteration ends as soon as the queue is found empty
ConsumerEnd_early(c) ==
  /\ exit_status = NotExited
  /\ consumer[c] = "receiving"
  /\ queue[c] = <<>>
  /\ consumer' = [consumer EXCEPT ![c] = "terminated"]
  /\ UNCHANGED <<exit_status, envVars, LOGGER, CONFIG, nchan, queue, senders, cur,
                 outVars, thrVars, histVars>>

\* line 63: the iteration ends when the queue is empty and no Sender is left
ConsumerEnd(c) ==
  /\ exit_status = NotExited
  /\ consumer[c] = "receiving"
  /\ queue[c] = <<>>
  /\ senders[c] = 0
  /\ consumer' = [consumer EXCEPT ![c] = "terminated"]
  /\ UNCHANGED <<exit_status, envVars, LOGGER, CONFIG, nchan, queue, senders, cur,
                 outVars, thrVars, histVars>>

\* An entry of the file: a complete line, or the fragment a failed write left
Line(rec) == [rec |-> rec, complete |-> TRUE]
Fragment(rec) == [rec |-> rec, complete |-> FALSE]

\* faulty variant: a failed write ends the loop
AfterWrite_break(outcome) == IF outcome = "ok" THEN "flushing" ELSE "terminated"

\* faulty variant: the error arm goes straight to the next record
AfterWrite_continue(outcome) == IF outcome = "ok" THEN "flushing" ELSE "receiving"

\* the consumer's position after writeln! returned, whatever it returned
AfterWrite(outcome) == "flushing"

\* lines 64-66: writeln!(file, "{}", message); an Err is printed to standard
\* error.  A failed write appends nothing or a part of the line.
ConsumerWrite(c) ==
  /\ exit_status = NotExited
  /\ consumer[c] = "writing"
  /\ \E outcome \in {"ok", "failed", "partial"} :
       /\ outcome # "ok" => fails < MaxFails
       /\ file' = CASE outcome = "ok" -> Append(file, Line(cur[c]))
                    [] outcome = "partial" -> Append(file, Fragment(cur[c]))
                    [] OTHER -> file
       /\ stderr' = IF outcome = "ok" THEN stderr ELSE Append(stderr, cur[c])
       /\ fails' = IF outcome = "ok" THEN fails ELSE fails + 1
       /\ attempts' = [attempts EXCEPT ![c] =
                         Append(@, [rec |-> cur[c], outcome |-> outcome])]
       /\ consumer' = [consumer EXCEPT ![c] = AfterWrite(outcome)]
  /\ UNCHANGED <<exit_status, envVars, LOGGER, CONFIG, nchan, queue, senders, cur,
                 thrVars, issued, sent, flushes>>

\* line 67: let _ = file.flush(), whose result is discarded; then the loop
\* receives again
ConsumerFlush(c) ==
  /\ exit_status = NotExited
  /\ consumer[c] = "flushing"
  /\ consumer' = [consumer EXCEPT ![c] = "receiving"]
  /\ cur' = [cur EXCEPT ![c] = NoRecord]
  /\ flushes' = [flushes EXCEPT ![c] = @ + 1]
  /\ UNCHANGED <<exit_status, envVars, LOGGER, CONFIG, nchan, queue, senders,
                 outVars, thrVars, issued, sent, attempts>>

\* ----------------------------------------------------------------- AppConf
\* OnceLock::set of CONFIG: the value is stored if the cell is empty
ConfigSet(cell, c) == IF cell.set THEN cell ELSE [set |-> TRUE, conf |-> c]

\* AppConf::init line 80 and load_app_conf (lines 50-73): Logger::get, the
\* read, the parse, the substitution, and the ERROR record of lines 56 / 62.
AppInitLoad(t) ==
  /\ MayCall(t, "AppConf::init")
  /\ Charge(t)
  /\ IF ~LoggerCell(LOGGER).present
       THEN /\ Panic(t, "Logger not initialized")
            /\ UNCHANGED <<loaded, queue, histVars>>
       ELSE LET res == load_app_conf(confFile, envHOME) IN
            /\ loaded' = [loaded EXCEPT ![t] = res]
            /\ pc' = [pc EXCEPT ![t] = IF res.ok THEN "ac_set" ELSE "ac_err"]
            /\ IF res.logged # ""
                 THEN LogCall(t, LOGGER, "ERROR", Msg(res.logged, ConfPath, res.err, <<>>))
                 ELSE UNCHANGED <<queue, issued, sent>>
            /\ UNCHANGED <<exit_status, panicMsg, attempts, flushes>>
  /\ UNCHANGED <<envVars, LOGGER, CONFIG, nchan, senders, consumer, cur, outVars,
                 mainStep, handle, confRef, tx>>

\* AppConf::init lines 82-85: CONFIG.set(config).expect(..), then log.debug
AppInitSet(t) ==
  /\ exit_status = NotExited
  /\ pc[t] = "ac_set"
  /\ CONFIG' = ConfigSet(CONFIG, loaded[t].conf)
  /\ loaded' = [loaded EXCEPT ![t] = NoResult]
  /\ IF ~CONFIG.set
       THEN /\ pc' = [pc EXCEPT ![t] = "idle"]
            /\ Advance(t)
            /\ IF debug_assertions
                 THEN LogCall(t, LOGGER, "DEBUG",
                              Msg("Configuration loaded successfully", "", "", <<>>))
                 ELSE UNCHANGED <<queue, issued, sent>>
            /\ UNCHANGED <<exit_status, panicMsg>>
       ELSE /\ Panic(t, "Failed to set configuration")
            /\ UNCHANGED <<mainStep, queue, issued, sent>>
  /\ UNCHANGED <<envVars, LOGGER, nchan, senders, consumer, cur, outVars,
                 calls, handle, confRef, tx, attempts, flushes>>

\* AppConf::init line 87: log.error("Failed to load configuration: {err}")
AppInitLogErr(t) ==
  /\ exit_status = NotExited
  /\ pc[t] = "ac_err"
  /\ LogCall(t, LOGGER, "ERROR",
             Msg("Failed to load configuration", "", loaded[t].err, <<>>))
  /\ pc' = [pc EXCEPT ![t] = "ac_exit"]
  /\ UNCHANGED <<exit_status, envVars, LOGGER, CONFIG, nchan, senders, consumer, cur,
                 outVars, mainStep, calls, handle, confRef, loaded, tx, panicMsg,
                 attempts, flushes>>

\* faulty variant: the exit joins the consumers, it waits until every queue
\* is drained and every record in hand is flushed
AppInitExit_join(t) ==
  /\ exit_status = NotExited
  /\ pc[t] = "ac_exit"
  /\ \A c \in Chans : queue[c] = <<>> /\ consumer[c] \notin {"writing", "flushing"}
  /\ exit_status' = Exited(ExitFailure)
  /\ pc' = [pc EXCEPT ![t] = "exited"]
  /\ UNCHANGED <<envVars, LOGGER, CONFIG, chanVars, outVars,
                 mainStep, calls, handle, confRef, loaded, tx, panicMsg, histVars>>

\* AppConf::init line 88: process::exit(1)
AppInitExit(t) ==
  /\ exit_status = NotExited
  /\ pc[t] = "ac_exit"
  /\ exit_status' = Exited(ExitFailure)
  /\ pc' = [pc EXCEPT ![t] = "exited"]
  /\ UNCHANGED <<envVars, LOGGER, CONFIG, chanVars, outVars,
                 mainStep, calls, handle, confRef, loaded, tx, panicMsg, histVars>>

\* AppConf::get, lines 100-102
AppConfGet(t) ==
  /\ MayCall(t, "AppConf::get")
  /\ Charge(t)
  /\ IF ConfigCell(CONFIG).present
       THEN /\ confRef' = [confRef EXCEPT ![t] = ConfigCell(CONFIG).value]
            /\ Advance(t)
            /\ UNCHANGED <<exit_status, pc, panicMsg>>
       ELSE /\ Panic(t, "Configuration not initialized")
            /\ UNCHANGED <<confRef, mainStep>>
  /\ UNCHANGED <<envVars, LOGGER, CONFIG, chanVars, outVars,
                 handle, loaded, tx, histVars>>

\* main() returns (line 40): the process ends with status 0 and takes every
\* other thread with it.
MainReturn ==
  /\ MayCall(MainThread, "return")
  /\ exit_status' = Exited(ExitOk)
  /\ pc' = [pc EXCEPT ![MainThread] = "returned"]
  /\ UNCHANGED <<envVars, LOGGER, CONFIG, chanVars, outVars,
                 mainStep, calls, handle, confRef, loaded, tx, panicMsg, histVars>>

\* ----------------------------------------------------------- specification
ThreadStep(t) ==
  \/ LoggerInitSpawn(t)
  \/ LoggerInitSet(t)
  \/ LoggerGet(t)
  \/ WorkerLog(t)
  \/ AppInitLoad(t)
  \/ AppInitSet(t)
  \/ AppInitLogErr(t)
  \/ AppInitExit(t)
  \/ AppConfGet(t)

ConsumerStep(c) ==
  \/ ConsumerOpen(c)
  \/ ConsumerRecv(c)
  \/ ConsumerEnd(c)
  \/ ConsumerWrite(c)
  \/ ConsumerFlush(c)

Next ==
  \/ \E t \in Threads : ThreadStep(t)
  \/ MainLog
  \/ MainReturn
  \/ \E c \in Chans : ConsumerStep(c)

Spec == Init /\ [][Next]_vars

\* -------------------------------------- the loader over many documents
\* user_conf values: up to MaxFrags pieces, among them the placeholder and
\* the two halves that join into it; HOME values, among them the empty
\* string and strings that hold the placeholder or a half of it.
Frags == {PLACEHOLDER, <<"$", "H", "O">>, <<"M", "E">>, <<"/">>, <<"c">>}

RECURSIVE Strings(_)
Strings(n) ==
  IF n = 0 THEN {<<>>}
  ELSE Strings(n - 1) \cup {s \o f : s \in Strings(n - 1), f \in Frags}

WideFiles ==
  {FileMissing, FileGarbage}
    \cup {FileDoc(AppConf("1.0", "/var/log/x.log", u)) : u \in Strings(MaxFrags)}

WideHomes ==
  {HomeUnset}
    \cup {HomeSet(h) : h \in {<<>>, <<"/", "h">>, <<"M", "E">>, PLACEHOLDER \o <<"/">>}}

\* A release build in which only main() runs: no worker thread exists.
InitLoad == InitWith({FALSE}, WideFiles, WideHomes)

NextLoad ==
  \/ LoggerInitSpawn(MainThread)
  \/ LoggerInitSet(MainThread)
  \/ LoggerGet(MainThread)
  \/ AppInitLoad(MainThread)
  \/ AppInitSet(MainThread)
  \/ AppInitLogErr(MainThread)
  \/ AppInitExit(MainThread)
  \/ AppConfGet(MainThread)
  \/ MainReturn
  \/ \E c \in Chans :
       ConsumerOpen(c) \/ ConsumerRecv(c) \/ ConsumerWrite(c) \/ ConsumerFlush(c)

SpecLoad == InitLoad /\ [][NextLoad]_vars

\* The operating system schedules every thread that can run: a consumer
\* thread that can take a step eventually takes one.
SpecFair == Spec /\ \A c \in Chans : WF_vars(ConsumerStep(c))

\* ------------------------------------------------------------------ claims
Recs(seq) == [i \in 1..Len(seq) |-> seq[i].rec]
From(seq, t) == SelectSeq(seq, LAMBDA r : r.src = t)
CompleteLines == SelectSeq(file, LAMBDA e : e.complete)
Written(c) == SelectSeq(attempts[c], LAMBDA a : a.outcome = "ok")

\* C1: the records of one producer appear in the log file in the order of
\* that producer's calls, under every interleaving of the producers and the
\* consumer: of two entries of the file that come from the same thread, the
\* earlier entry is the earlier call, and each entry is the record that call
\* formatted.
C1_PerProducerOrder ==
  /\ \A i \in 1..Len(file) :
       /\ file[i].rec.n \in 1..Len(issued[file[i].rec.src])
       /\ file[i].rec = issued[file[i].rec.src][file[i].rec.n]
  /\ \A i \in 1..Len(file) : \A j \in 1..Len(file) :
       (i < j /\ file[i].rec.src = file[j].rec.src) => file[i].rec.n < file[j].rec.n

\* two lines of one producer with a line of another producer between them
C1_Witness ==
  \E i \in 1..Len(file) : \E j \in 1..Len(file) : \E k \in 1..Len(file) :
    /\ i < j /\ j < k
    /\ file[i].complete /\ file[j].complete /\ file[k].complete
    /\ file[i].rec.src = file[k].rec.src
    /\ file[i].rec.src # file[j].rec.src

\* C2 as stated: once the consumer has opened the file and has processed
\* everything that was sent (it waits on an empty channel), the file holds
\* exactly one line per call of every thread, in call order.
C2_Original ==
  (LOGGER # 0 /\ consumer[LOGGER] = "receiving" /\ queue[LOGGER] = <<>>)
    => \A t \in Threads : From(Recs(CompleteLines), t) = issued[t]

\* C2 amended: the log file holds exactly one line, in order, for each
\* record the consumer of the installed logger received and wrote
\* successfully; while that consumer lives nothing is lost or duplicated
\* between a call and the consumer (every call is written, in the consumer's
\* hand, or queued, in call order); so when the consumer waits on an empty
\* channel and no write has failed the file holds exactly the N lines of a
\* thread's N calls, in call order.
C2_ExactlyTheWrittenRecords ==
  LOGGER # 0 =>
    LET c == LOGGER IN
    /\ Recs(CompleteLines) = Recs(Written(c))
    /\ ReceiverAlive(c) =>
         /\ sent[c] = Recs(attempts[c])
                        \o (IF consumer[c] = "writing" THEN <<cur[c]>> ELSE <<>>)
                        \o queue[c]
         /\ \A t \in Threads : From(sent[c], t) = issued[t]
    /\ (consumer[c] = "receiving" /\ queue[c] = <<>> /\ fails = 0)
         => \A t \in Threads : From(Recs(CompleteLines), t) = issued[t]

\* the consumer has written every one of at least three calls of one thread
C2_Witness ==
  /\ LOGGER # 0
  /\ consumer[LOGGER] = "receiving" /\ queue[LOGGER] = <<>> /\ fails = 0
  /\ \E t \in Threads :
       /\ Len(issued[t]) >= 3
       /\ From(Recs(CompleteLines), t) = issued[t]

\* C3: a Logger::init or AppConf::init that reaches its OnceLock::set when
\* the singleton is already installed panics, and no step ever changes an
\* installed singleton: LOGGER keeps the channel of the first consumer with
\* its sender alive, CONFIG keeps the first configuration, and what
\* Logger::get and AppConf::get hand out afterwards is that first value.
C3_SecondInitFails ==
  [][ /\ LOGGER # 0 => (LOGGER' = LOGGER /\ senders'[LOGGER] = senders[LOGGER])
      /\ CONFIG.set => CONFIG' = CONFIG
      /\ \A t \in Threads :
           /\ (pc[t] = "li_set" /\ pc'[t] # "li_set" /\ LOGGER # 0)
                => (pc'[t] = "panicked" /\ panicMsg'[t] = "Logger already initialized")
           /\ (pc[t] = "ac_set" /\ pc'[t] # "ac_set" /\ CONFIG.set)
                => (pc'[t] = "panicked" /\ panicMsg'[t] = "Failed to set configuration")
           /\ (LOGGER # 0 /\ handle'[t] # handle[t]) => handle'[t] = LOGGER
           /\ (CONFIG.set /\ confRef'[t] # confRef[t]) => confRef'[t] = CONFIG
    ]_vars

\* a second Logger::init has panicked, the first logger is installed and
\* Logger::get handed it out
C3_WitnessLogger ==
  /\ \E t \in Threads : panicMsg[t] = "Logger already initialized"
  /\ LOGGER # 0 /\ senders[LOGGER] = 1
  /\ \E t \in Threads : handle[t] = LOGGER

\* a second AppConf::init has panicked, the first configuration is
\* installed and AppConf::get handed it out
C3_WitnessConfig ==
  /\ \E t \in Threads : panicMsg[t] = "Failed to set configuration"
  /\ CONFIG.set
  /\ \E t \in Threads : confRef[t] = CONFIG

C3_Witness == C3_WitnessLogger \/ C3_WitnessConfig

\* C4: Logger::get (also the one AppConf::init starts with) called while
\* LOGGER is empty, and AppConf::get called while CONFIG is empty, panic and
\* hand out nothing; a thread never holds a handle or a configuration other
\* than the installed one.
C4_GetBeforeInitPanics ==
  /\ [](\A t \in Threads :
          /\ handle[t] # 0 => (LOGGER # 0 /\ handle[t] = LOGGER)
          /\ confRef[t] # NoConfig => (CONFIG.set /\ confRef[t] = CONFIG))
  /\ [][\A t \in Threads :
          /\ (LOGGER = 0 /\ (LoggerGet(t) \/ AppInitLoad(t)))
               => /\ pc'[t] = "panicked"
                  /\ panicMsg'[t] = "Logger not initialized"
                  /\ handle'[t] = handle[t]
          /\ (~CONFIG.set /\ AppConfGet(t))
               => /\ pc'[t] = "panicked"
                  /\ panicMsg'[t] = "Configuration not initialized"
                  /\ confRef'[t] = confRef[t]
      ]_vars

C4_WitnessLogger ==
  \E t \in Threads : panicMsg[t] = "Logger not initialized" /\ handle[t] = 0

C4_WitnessConfig ==
  \E t \in Threads : panicMsg[t] = "Configuration not initialized" /\ confRef[t] = NoConfig

C4_Witness == C4_WitnessLogger \/ C4_WitnessConfig

\* an ERROR record of thread t that names the configuration file
ErrorWithPath(t) ==
  \E i \in 1..Len(issued[t]) :
    /\ issued[t][i].level = "ERROR"
    /\ issued[t][i].msg.path = ConfPath

\* C5: when the configuration file cannot be read, AppConf::init (with the
\* logger installed) goes from the failed load to its error report and from
\* there to process::exit(1) and nowhere else; by then the thread has logged
\* an ERROR record that names the configuration file; CONFIG is never
\* installed, no thread obtains a configuration, and main() never gets past
\* its AppConf::init statement.
C5_MissingFileExits ==
  /\ [](confFile = FileMissing =>
          /\ CONFIG = NoConfig
          /\ \A t \in Threads : confRef[t] = NoConfig
          /\ MainScript[mainStep] \in {"Logger::init", "Logger::get", "AppConf::init"}
          /\ pc[MainThread] # "returned"
          /\ \A t \in Threads :
               pc[t] \in {"ac_err", "ac_exit", "exited"}
                 => (loaded[t].err = "read" /\ ErrorWithPath(t)))
  /\ [][confFile = FileMissing =>
          \A t \in Threads :
            /\ (LOGGER # 0 /\ AppInitLoad(t)) => pc'[t] = "ac_err"
            /\ (pc[t] = "ac_err" /\ pc'[t] # "ac_err") => pc'[t] = "ac_exit"
            /\ (pc[t] = "ac_exit" /\ pc'[t] # "ac_exit")
                 => (pc'[t] = "exited" /\ exit_status' = Exited(ExitFailure))
      ]_vars

\* main() ran into the missing file and the process ended with status 1
C5_Witness ==
  /\ confFile = FileMissing
  /\ pc[MainThread] = "exited"
  /\ exit_status = Exited(ExitFailure)
  /\ ErrorWithPath(MainThread)
  /\ CONFIG = NoConfig

\* s with every placeholder replaced by home, found by cutting s at its
\* first placeholder
RECURSIVE PlaceholderReplaced(_, _)
PlaceholderReplaced(s, home) ==
  IF ~Contains(s, PLACEHOLDER) THEN s
  ELSE LET i == CHOOSE k \in 1..Len(s) :
                  /\ SubSeq(s, k, k + Len(PLACEHOLDER) - 1) = PLACEHOLDER
                  /\ \A m \in 1..(k - 1) :
                       SubSeq(s, m, m + Len(PLACEHOLDER) - 1) # PLACEHOLDER
       IN SubSeq(s, 1, i - 1) \o home
            \o PlaceholderReplaced(SubSeq(s, i + Len(PLACEHOLDER), Len(s)), home)

\* C6: for a parseable document load_app_conf returns version and log_path
\* verbatim; user_conf verbatim when it holds no "$HOME"; otherwise (HOME
\* being set) user_conf with each "$HOME" replaced by the value of HOME, so
\* that "$HOME/c" with HOME=/h gives "/h/c".  A parseable document fails to
\* load only when it holds the placeholder and HOME is unset.
C6_LoadReturnsDocument ==
  \A t \in Threads :
    LET d == confFile.doc
        r == loaded[t] IN
    /\ pc[t] = "ac_set" =>
         /\ confFile.kind = "doc" /\ r.ok
         /\ r.conf.version = d.version
         /\ r.conf.log_path = d.log_path
         /\ ~Contains(d.user_conf, PLACEHOLDER) => r.conf.user_conf = d.user_conf
         /\ Contains(d.user_conf, PLACEHOLDER) =>
              /\ envHOME.set
              /\ r.conf.user_conf = PlaceholderReplaced(d.user_conf, envHOME.val)
         /\ (d.user_conf = PLACEHOLDER \o <<"/", "c">> /\ envHOME = HomeSet(<<"/", "h">>))
              => r.conf.user_conf = <<"/", "h", "/", "c">>
    /\ (pc[t] = "ac_err" /\ confFile.kind = "doc") =>
         (Contains(d.user_conf, PLACEHOLDER) /\ ~envHOME.set)

\* a document with two placeholders has been loaded with HOME=/h
C6_Witness ==
  /\ pc[MainThread] = "ac_set"
  /\ confFile.doc.user_conf = PLACEHOLDER \o <<"/">> \o PLACEHOLDER
  /\ envHOME = HomeSet(<<"/", "h">>)
  /\ loaded[MainThread].conf.user_conf = <<"/", "h", "/", "/", "h">>

\* C7: whenever load_app_conf has returned successfully its user_conf holds
\* no "$HOME" placeholder, and neither does the installed configuration.
C7_NoPlaceholderAfterLoad ==
  /\ \A t \in Threads :
       loaded[t].ok => ~Contains(loaded[t].conf.user_conf, PLACEHOLDER)
  /\ CONFIG.set => ~Contains(CONFIG.conf.user_conf, PLACEHOLDER)

Failed(c) == SelectSeq(attempts[c], LAMBDA a : a.outcome # "ok")
IsPrefix(p, q) == Len(p) <= Len(q) /\ SubSeq(q, 1, Len(p)) = p

Spawned == {c \in Chans : consumer[c] # "none"}

\* C9: whatever Logger::init calls are made, failing ones included, exactly
\* one consumer thread is ever spawned: none before the first call, one
\* once the logger is installed, never a second.
C9_ExactlyOneConsumer ==
  /\ Cardinality(Spawned) <= 1
  /\ LOGGER # 0 => Cardinality(Spawned) = 1

\* C10: while the process runs the pipeline is either Uninitialized (no
\* handle installed) or Running (handle installed, its consumer thread alive
\* and serving the channel); a state with the handle installed and the
\* consumer stopped is not reachable.
C10_UninitializedOrRunning ==
  exit_status = NotExited => (LOGGER = 0 \/ ReceiverAlive(LOGGER))

\* thread t, holding a handle, is about to call info / warn / error / debug
AboutToLog(t) ==
  /\ exit_status = NotExited
  /\ pc[t] = "idle"
  /\ handle[t] # 0
  /\ IF t = MainThread
       THEN mainStep <= Len(MainScript) /\ MainLevel(MainScript[mainStep]) # ""
       ELSE calls < MaxCalls

LogStep(t) == WorkerLog(t) \/ (t = MainThread /\ MainLog)

\* C11: a log call on the installed handle never waits for the consumer: in
\* every state in which a thread is about to make one the call can be taken,
\* whatever the consumer is doing and however long the queue is; the call is
\* one step, after which the thread has returned without a panic, and which
\* appends the record to the queue while the receiver exists and drops it
\* once the consumer has stopped, touching neither the consumer nor the file.
C11_LogNeverWaits ==
  /\ [](\A t \in Threads : AboutToLog(t) => ENABLED LogStep(t))
  /\ [][\A t \in Threads :
          LogStep(t) =>
            /\ pc'[t] = "idle"
            /\ panicMsg' = panicMsg
            /\ exit_status' = exit_status
            /\ Len(issued'[t]) = Len(issued[t]) + 1
            /\ queue' = IF ReceiverAlive(handle[t])
                          THEN [queue EXCEPT ![handle[t]] =
                                  Append(@, issued'[t][Len(issued'[t])])]
                          ELSE queue
            /\ consumer' = consumer
            /\ file' = file
      ]_vars

\* a thread has logged after the consumer stopped, and has returned
C11_WitnessStopped ==
  /\ LOGGER # 0
  /\ ~ReceiverAlive(LOGGER)
  /\ \E t \in Threads :
       /\ pc[t] = "idle"
       /\ Len(issued[t]) > Len(From(sent[LOGGER], t))

\* a thread is about to log while the consumer is in a write with a backlog
C11_WitnessBacklog ==
  /\ LOGGER # 0
  /\ consumer[LOGGER] = "writing"
  /\ Len(queue[LOGGER]) >= 2
  /\ \E t \in Threads : AboutToLog(t)

C11_Witness == C11_WitnessStopped \/ C11_WitnessBacklog

HasPlaceholder == confFile.kind = "doc" /\ Contains(confFile.doc.user_conf, PLACEHOLDER)
NoPlaceholder == confFile.kind = "doc" /\ ~Contains(confFile.doc.user_conf, PLACEHOLDER)

\* C12: HOME matters only when user_conf holds the placeholder.  A document
\* without it loads, HOME set or not: AppConf::init never takes its error
\* arm and what it loaded is the document.  A document with it, HOME being
\* unset, makes AppConf::init take its error arm (cause: the environment)
\* and from there process::exit(1) and nothing else; CONFIG is never
\* installed.
C12_HomeReadOnlyForPlaceholder ==
  /\ [](NoPlaceholder =>
          \A t \in Threads :
            /\ pc[t] \notin {"ac_err", "ac_exit", "exited"}
            /\ pc[t] = "ac_set" => loaded[t] = Ok(confFile.doc))
  /\ []((HasPlaceholder /\ ~envHOME.set) =>
          /\ CONFIG = NoConfig
          /\ \A t \in Threads :
               /\ pc[t] # "ac_set"
               /\ pc[t] \in {"ac_err", "ac_exit", "exited"} => loaded[t].err = "env")
  /\ [][(HasPlaceholder /\ ~envHOME.set) =>
          \A t \in Threads :
            /\ (LOGGER # 0 /\ AppInitLoad(t)) => pc'[t] = "ac_err"
            /\ (pc[t] = "ac_err" /\ pc'[t] # "ac_err") => pc'[t] = "ac_exit"
            /\ (pc[t] = "ac_exit" /\ pc'[t] # "ac_exit")
                 => (pc'[t] = "exited" /\ exit_status' = Exited(ExitFailure))
      ]_vars

\* a document without the placeholder is installed although HOME is unset
C12_WitnessLoaded ==
  /\ NoPlaceholder /\ ~envHOME.set
  /\ Len(confFile.doc.user_conf) > 0
  /\ CONFIG = [set |-> TRUE, conf |-> confFile.doc]

\* the placeholder with HOME unset has ended the process with status 1
C12_WitnessExit ==
  /\ HasPlaceholder /\ ~envHOME.set
  /\ pc[MainThread] = "exited"
  /\ exit_status = Exited(ExitFailure)
  /\ CONFIG = NoConfig

C12_Witness == C12_WitnessLoaded \/ C12_WitnessExit

\* an ERROR record of thread t that carries both the configuration file
\* path and the cause of the failed load
ErrorWithPathAndCause(t) ==
  \E i \in 1..Len(issued[t]) :
    /\ issued[t][i].level = "ERROR"
    /\ issued[t][i].msg.path = ConfPath
    /\ issued[t][i].msg.cause = loaded[t].err
    /\ issued[t][i].msg.cause # ""

\* the load of this configuration file with this HOME fails
LoadFails == ~load_app_conf(confFile, envHOME).ok

\* C13: for each kind of load failure (read, parse, HOME missing with the
\* placeholder present) AppConf::init has, by the time it is about to call
\* process::exit and ever after, issued an ERROR record carrying both the
\* configuration file path and the cause; it then exits with status 1 and
\* does nothing else; CONFIG is never installed and main() never gets past
\* its AppConf::init statement.
C13_EveryFailureLoggedWithPathAndCause ==
  /\ [](LoadFails =>
          /\ CONFIG = NoConfig
          /\ pc[MainThread] # "returned"
          /\ MainScript[mainStep] \in {"Logger::init", "Logger::get", "AppConf::init"}
          /\ \A t \in Threads :
               /\ pc[t] # "ac_set"
               /\ pc[t] \in {"ac_exit", "exited"} => ErrorWithPathAndCause(t))
  /\ [][LoadFails =>
          \A t \in Threads :
            /\ (LOGGER # 0 /\ AppInitLoad(t)) => pc'[t] = "ac_err"
            /\ (pc[t] = "ac_err" /\ pc'[t] # "ac_err") => pc'[t] = "ac_exit"
            /\ (pc[t] = "ac_exit" /\ pc'[t] # "ac_exit")
                 => (pc'[t] = "exited" /\ exit_status' = Exited(ExitFailure))
      ]_vars

\* the same without the path: what holds of all three kinds
C13_EveryFailureLoggedWithCause ==
  /\ [](LoadFails =>
          /\ CONFIG = NoConfig
          /\ pc[MainThread] # "returned"
          /\ \A t \in Threads :
               /\ pc[t] # "ac_set"
               /\ pc[t] \in {"ac_exit", "exited"}
                    => \E i \in 1..Len(issued[t]) :
                         /\ issued[t][i].level = "ERROR"
                         /\ issued[t][i].msg.cause = loaded[t].err
                         /\ loaded[t].err # ""
               /\ (pc[t] \in {"ac_exit", "exited"} /\ loaded[t].err # "env")
                    => ErrorWithPathAndCause(t))

\* the records of channel c that are queued and not in the log file
Lost(c) == SelectSeq(queue[c], LAMBDA r : \A i \in 1..Len(file) : file[i].rec # r)

\* C14: the end of the process neither flushes nor joins.  AppConf::init,
\* having issued its ERROR records, can call process::exit at once,
\* whatever is queued and wherever the consumer is; the step that ends the
\* process (process::exit, the return of main, a panic of main) leaves the
\* queues, the consumers and the file as they are; and once the process has
\* ended no consumer takes a step, so whatever is queued then stays queued
\* and out of the file.
C14_ExitNeitherFlushesNorJoins ==
  /\ [](\A t \in Threads :
          (exit_status = NotExited /\ pc[t] = "ac_exit") => ENABLED AppInitExit(t))
  /\ [](exit_status # NotExited => \A c \in Chans : ~ENABLED ConsumerStep(c))
  /\ [][exit_status' # exit_status =>
          /\ exit_status = NotExited
          /\ queue' = queue /\ file' = file /\ consumer' = consumer /\ cur' = cur]_vars
  /\ [][exit_status # NotExited => UNCHANGED <<queue, file, consumer, cur>>]_vars

\* process::exit(1) on the configuration-failure path, the consumer alive,
\* both ERROR records of AppConf::init still queued, nothing in the file
C14_Witness ==
  /\ exit_status = Exited(ExitFailure)
  /\ pc[MainThread] = "exited"
  /\ LOGGER # 0
  /\ ReceiverAlive(LOGGER)
  /\ file = <<>>
  /\ Len(Lost(LOGGER)) = 2
  /\ \A i \in 1..2 : Lost(LOGGER)[i].level = "ERROR" /\ Lost(LOGGER)[i].src = MainThread
  /\ Lost(LOGGER)[2].msg.text = "Failed to load configuration"

\* C15: the consumer drains the channel in send order.  As long as no write
\* has failed, the lines of the log file are, one for one and in order, the
\* first records that reached the channel of the installed logger, whatever
\* threads sent them; before a logger is installed the file has no line.
C15_FileIsPrefixOfSendOrder ==
  fails = 0 =>
    /\ LOGGER = 0 => file = <<>>
    /\ LOGGER # 0 =>
         /\ \A i \in 1..Len(file) : file[i].complete
         /\ IsPrefix(Recs(file), sent[LOGGER])

\* lines of two producers in the file, in send order, more records behind
C15_Witness ==
  /\ fails = 0
  /\ LOGGER # 0
  /\ Len(file) >= 2
  /\ Len(sent[LOGGER]) > Len(file)
  /\ \E i \in 1..Len(file) : \E j \in 1..Len(file) :
       i < j /\ file[i].rec.src # MainThread /\ file[j].rec.src = MainThread
  /\ IsPrefix(Recs(file), sent[LOGGER])

\* C16: a failed open of the log file is fatal to the consumer and to
\* nothing else.  The consumer's panic changes no thread and not the exit
\* status; a Logger::init whose consumer has already panicked still installs
\* its handle and returns; a thread about to log on the handle of a panicked
\* consumer can always do so, returns without a panic, and its record goes
\* nowhere: neither into the queue nor into the file.  A panicked consumer
\* stays panicked, has attempted no write, and with the installed logger's
\* consumer panicked the file has no line.
C16_OpenFailureIsSilent ==
  /\ [](\A c \in Chans :
          consumer[c] = "panicked" =>
            /\ attempts[c] = <<>> /\ queue[c] = <<>>
            /\ c = LOGGER => (file = <<>> /\ stderr = <<>>))
  /\ [](\A t \in Threads :
          /\ (exit_status = NotExited /\ pc[t] = "li_set") => ENABLED LoggerInitSet(t)
          /\ (AboutToLog(t) /\ consumer[handle[t]] = "panicked") => ENABLED LogStep(t))
  /\ [][\A c \in Chans :
          /\ consumer[c] = "panicked" => consumer'[c] = "panicked"
          /\ (consumer[c] # "panicked" /\ consumer'[c] = "panicked")
               => /\ consumer[c] = "spawned"
                  /\ UNCHANGED <<exit_status, pc, panicMsg, mainStep, LOGGER, file, stderr>>
      ]_vars
  /\ [][\A t \in Threads :
          /\ (pc[t] = "li_set" /\ LOGGER = 0 /\ consumer[tx[t]] = "panicked"
                /\ LoggerInitSet(t))
               => (LOGGER' = tx[t] /\ pc'[t] = "idle" /\ panicMsg' = panicMsg
                     /\ exit_status' = exit_status)
          /\ (AboutToLog(t) /\ consumer[handle[t]] = "panicked" /\ LogStep(t))
               => /\ pc'[t] = "idle" /\ panicMsg' = panicMsg /\ exit_status' = exit_status
                  /\ Len(issued'[t]) = Len(issued[t]) + 1
                  /\ queue' = queue /\ sent' = sent /\ file' = file /\ stderr' = stderr
      ]_vars

\* the open failed before the first log call; main() has made all its calls
\* and returned with status 0, no record went anywhere
C16_Witness ==
  /\ LOGGER # 0
  /\ consumer[LOGGER] = "panicked"
  /\ pc[MainThread] = "returned"
  /\ exit_status = Exited(ExitOk)
  /\ Len(issued[MainThread]) >= 3
  /\ sent[LOGGER] = <<>>
  /\ file = <<>>
  /\ \A t \in Threads : panicMsg[t] = ""

LoopStates == {"receiving", "writing", "flushing"}
InLoop(c) == consumer[c] \in LoopStates

Unflushed(c) == Len(attempts[c]) - flushes[c]

C19_OnlyInstalledConsumerWrites ==
  /\ [](\A c \in Chans :
          c # LOGGER =>
            /\ sent[c] = <<>> /\ queue[c] = <<>> /\ cur[c] = NoRecord
            /\ attempts[c] = <<>> /\ flushes[c] = 0
            /\ consumer[c] \notin {"writing", "flushing"})
  /\ [](/\ LOGGER = 0 => file = <<>>
        /\ LOGGER # 0 =>
             /\ Recs(CompleteLines) = Recs(Written(LOGGER))
             /\ Len(file) <= Len(attempts[LOGGER])
             /\ \A i \in 1..Len(file) :
                  \E j \in 1..Len(attempts[LOGGER]) : attempts[LOGGER][j].rec = file[i].rec)
  /\ [][file' # file =>
          /\ LOGGER # 0 /\ LOGGER' = LOGGER
          /\ consumer[LOGGER] = "writing"
          /\ Len(attempts'[LOGGER]) = Len(attempts[LOGGER]) + 1
          /\ Len(file') = Len(file) + 1
          /\ file'[Len(file')].rec = cur[LOGGER]
          /\ \A c \in Chans : c # LOGGER => (consumer'[c] = consumer[c] /\ attempts'[c] = attempts[c])
      ]_vars
  /\ \A c \in Chans :
       (consumer[c] # "none" /\ senders[c] = 0)
         ~> (consumer[c] \in {"terminated", "panicked"} \/ exit_status # NotExited)

\* a second Logger::init has failed; its consumer opened the file, got
\* nothing and terminated, while the installed logger's consumer has written
C19_Witness ==
  /\ LOGGER # 0
  /\ Len(CompleteLines) >= 1
  /\ \E t \in Threads : panicMsg[t] = "Logger already initialized"
  /\ \E c \in Chans :
       /\ c # LOGGER
       /\ consumer[c] = "terminated"
       /\ sent[c] = <<>> /\ attempts[c] = <<>>

====
